---- MODULE Spec2Model ----
(***************************************************************************)
(* A model of src/main.py: the value classifier is_numeric, the row        *)
(* processors WhereProcessor / OrderByProcessor / AggregateProcessor, the  *)
(* console viewer, and main() / CSVApplication.run.                        *)
(*                                                                         *)
(* Python strings are sequences of one-character strings, so that parsing  *)
(* (float(), re.match, str.split, str.strip, str.lower) and lexicographic  *)
(* comparison are computed character by character as the interpreter does. *)
(***************************************************************************)
EXTENDS Integers, Sequences, FiniteSets, TLC

VARIABLES
    pc,          \* position of the program
    value,       \* the argument of is_numeric
    numeric,     \* the result of is_numeric
    argv,        \* the optional flags as typed: a sequence of <<flag, text>>
    file,        \* the source file: [kind, rows]
    processors,  \* the processor list (main.processors / app.processors)
    data,        \* the loaded dataset (app.data), or a processor's input
    trail,       \* the datasets so far: trail[1] = data, then each output
    shown,       \* one record per call of ConsoleViewer.show
    warnings,    \* the warnings printed to stderr, in order
    exit_code    \* the exit code of the process (0 unless sys.exit(1) ran)

vars == <<pc, value, numeric, argv, file, processors, data, trail, shown,
          warnings, exit_code>>

\* Python's None (an absent field, an absent flag, no result yet).
None == <<"None">>

\* The outcome of a float() call that raises ValueError or TypeError.
ValueError == [kind |-> "ValueError"]

----------------------------------------------------------------------------
(* Characters and strings *)

Digits == {"0", "1", "2", "3", "4", "5", "6", "7", "8", "9"}

UpperCase == <<"A", "B", "C", "D", "E", "F", "G", "H", "I", "J", "K", "L", "M",
               "N", "O", "P", "Q", "R", "S", "T", "U", "V", "W", "X", "Y", "Z">>

LowerCase == <<"a", "b", "c", "d", "e", "f", "g", "h", "i", "j", "k", "l", "m",
               "n", "o", "p", "q", "r", "s", "t", "u", "v", "w", "x", "y", "z">>

\* The characters of the model in code-point order.
CodePoints == <<" ", "+", "-", ".">>
              \o <<"0", "1", "2", "3", "4", "5", "6", "7", "8", "9">>
              \o <<"<", "=", ">">> \o UpperCase \o <<"_">> \o LowerCase

ord(c) == CHOOSE i \in 1..Len(CodePoints) : CodePoints[i] = c

IsSpace(c) == c = " "

\* str.lower, one character.
lower_char(c) ==
    IF \E i \in 1..Len(UpperCase) : UpperCase[i] = c
    THEN LowerCase[CHOOSE i \in 1..Len(UpperCase) : UpperCase[i] = c]
    ELSE c

\* str.lower
lower(s) == [i \in 1..Len(s) |-> lower_char(s[i])]

RECURSIVE lstrip(_)
lstrip(s) == IF s # <<>> /\ IsSpace(Head(s)) THEN lstrip(Tail(s)) ELSE s

RECURSIVE rstrip(_)
rstrip(s) ==
    IF s # <<>> /\ IsSpace(s[Len(s)]) THEN rstrip(SubSeq(s, 1, Len(s) - 1)) ELSE s

\* str.strip
strip(s) == rstrip(lstrip(s))

\* Python's < on two str: the first differing code point decides, a proper
\* prefix is smaller.
RECURSIVE str_lt(_, _)
str_lt(a, b) ==
    IF b = <<>> THEN FALSE
    ELSE IF a = <<>> THEN TRUE
    ELSE IF Head(a) # Head(b) THEN ord(Head(a)) < ord(Head(b))
    ELSE str_lt(Tail(a), Tail(b))

\* bool(s) of a str or None: `if value:`, `val or ""`
truthy(s) == s # None /\ s # <<>>

----------------------------------------------------------------------------
(* float(str): what it accepts and the value it returns *)

\* The underscore rule of float(): an underscore is legal only between two
\* digits.  prev is the previous character ("" at the start).
RECURSIVE underscores_ok(_, _)
underscores_ok(s, prev) ==
    IF s = <<>> THEN prev # "_"
    ELSE IF Head(s) = "_" THEN prev \in Digits /\ underscores_ok(Tail(s), "_")
    ELSE IF prev = "_" /\ Head(s) \notin Digits THEN FALSE
    ELSE underscores_ok(Tail(s), Head(s))

remove_underscores(s) == SelectSeq(s, LAMBDA c : c # "_")

\* The number of leading digits of s.
RECURSIVE digit_run(_)
digit_run(s) ==
    IF s # <<>> /\ Head(s) \in Digits THEN 1 + digit_run(Tail(s)) ELSE 0

drop(s, n) == SubSeq(s, n + 1, Len(s))

unsigned(s) == IF s # <<>> /\ Head(s) \in {"+", "-"} THEN Tail(s) ELSE s

InfNanWords == {<<"i", "n", "f">>, <<"n", "a", "n">>,
                <<"i", "n", "f", "i", "n", "i", "t", "y">>}

\* The scan of strtod over an unsigned, underscore-free text: the integer
\* digits, an optional point and fraction digits (one digit at least in the
\* two), then an exponent that is taken only when it is complete.  The
\* result is the record of what was read and the text left over.
scan_result(int, frac, eneg, exp, rest) ==
    [ok |-> Len(int) + Len(frac) > 0, int |-> int, frac |-> frac,
     eneg |-> eneg, exp |-> exp, rest |-> rest]

\* r3 is the text from the e on, r5 the text after the e and its sign
scan_exponent_digits(int, frac, r3, eneg, r5) ==
    IF digit_run(r5) > 0
    THEN scan_result(int, frac, eneg, SubSeq(r5, 1, digit_run(r5)),
                     drop(r5, digit_run(r5)))
    ELSE scan_result(int, frac, FALSE, <<>>, r3)

scan_exponent(int, frac, r3) ==
    IF r3 # <<>> /\ Head(r3) \in {"e", "E"}
    THEN scan_exponent_digits(int, frac, r3,
                              Tail(r3) # <<>> /\ Head(Tail(r3)) = "-",
                              unsigned(Tail(r3)))
    ELSE scan_result(int, frac, FALSE, <<>>, r3)

\* r1 is the text after the integer digits
scan_fraction(int, r1) ==
    IF r1 # <<>> /\ Head(r1) = "."
    THEN scan_exponent(int, SubSeq(Tail(r1), 1, digit_run(Tail(r1))),
                       drop(Tail(r1), digit_run(Tail(r1))))
    ELSE scan_exponent(int, <<>>, r1)

scan_number(u) == scan_fraction(SubSeq(u, 1, digit_run(u)), drop(u, digit_run(u)))

scan_complete(n) == n.ok /\ n.rest = <<>>

\* u is the text without blanks around it, underscores and sign
accepts_unsigned(u) ==
    lower(u) \in InfNanWords \/ scan_complete(scan_number(u))

\* t is the text without blanks around it
accepts_stripped(t) ==
    underscores_ok(t, "") /\ accepts_unsigned(unsigned(remove_underscores(t)))

\* TRUE iff float(s) returns, FALSE iff it raises ValueError.
float_accepts(s) == accepts_stripped(strip(s))

digit_value(c) == ord(c) - ord("0")

RECURSIVE digits_value(_)
digits_value(ds) ==
    IF ds = <<>> THEN 0
    ELSE 10 * digits_value(SubSeq(ds, 1, Len(ds) - 1)) + digit_value(ds[Len(ds)])

RECURSIVE pow10(_)
pow10(n) == IF n <= 0 THEN 1 ELSE 10 * pow10(n - 1)

\* A float is [kind |-> "nan"], [kind |-> "inf", neg |-> BOOLEAN] or a finite
\* value [kind |-> "fin", mant |-> Int, exp |-> Int, nz |-> BOOLEAN] standing
\* for the decimal number mant * 10^exp; nz marks the negative zero.  The
\* decimal is the double exactly for the texts of the model (up to 15
\* significant digits, no subnormal result).
Fin(m, e) == [kind |-> "fin", mant |-> m, exp |-> e, nz |-> FALSE]
Inf(neg) == [kind |-> "inf", neg |-> neg]
NaN == [kind |-> "nan"]

RECURSIVE strip_leading_zeros(_)
strip_leading_zeros(ds) ==
    IF ds # <<>> /\ Head(ds) = "0" THEN strip_leading_zeros(Tail(ds)) ELSE ds

\* the leading digits of 2^1024 - 2^970 = 0.1797...e309: a decimal at or
\* above it is rounded to infinity
OverflowDigits == <<"1", "7", "9", "7", "6", "9", "3", "1", "3", "4", "8", "6",
                    "2", "3", "1", "5", "8">>

\* the leading digits of 2^-1075 = 0.2470...e-323: a decimal at or below it
\* is rounded to zero
UnderflowDigits == <<"2", "4", "7", "0", "3", "2", "8", "2", "2", "9", "2", "0",
                     "6", "2", "3", "2", "8">>

\* the decimal exponent of the first digit of 2^1024 - 2^970
OverflowMagnitude == 309

\* the decimal exponent of the first digit of 2^-1075
UnderflowMagnitude == -323

\* The value of the decimal 0.ds * 10^magnitude = ds * 10^e of sign neg,
\* rounded to infinity or to zero outside the range of a double.
rounded_value(neg, ds, e, magnitude) ==
    IF ds = <<>> THEN [kind |-> "fin", mant |-> 0, exp |-> 0, nz |-> neg]
    ELSE IF \/ magnitude > OverflowMagnitude
            \/ magnitude = OverflowMagnitude /\ ~str_lt(ds, OverflowDigits)
    THEN Inf(neg)
    ELSE IF \/ magnitude < UnderflowMagnitude
            \/ magnitude = UnderflowMagnitude /\ str_lt(ds, UnderflowDigits)
    THEN [kind |-> "fin", mant |-> 0, exp |-> 0, nz |-> neg]
    ELSE [kind |-> "fin", mant |-> (IF neg THEN -1 ELSE 1) * digits_value(ds),
          exp |-> e, nz |-> FALSE]

decimal_value(neg, ds, e) == rounded_value(neg, ds, e, Len(ds) + e)

\* n is what scan_number read
scanned_value(neg, n) ==
    decimal_value(neg, strip_leading_zeros(n.int \o n.frac),
                  (IF n.eneg THEN -1 ELSE 1) * digits_value(n.exp) - Len(n.frac))

unsigned_value(neg, u) ==
    IF lower(u) = <<"n", "a", "n">> THEN NaN
    ELSE IF lower(u) \in InfNanWords THEN Inf(neg)
    ELSE scanned_value(neg, scan_number(u))

\* c is the text without blanks around it and without underscores
signed_value(c) == unsigned_value(c # <<>> /\ Head(c) = "-", unsigned(c))

\* The value float(s) returns, for the s it accepts.
float_value(s) == signed_value(remove_underscores(strip(s)))

\* float(s) of a str or None
float(s) ==
    IF s = None THEN ValueError
    ELSE IF float_accepts(s) THEN float_value(s) ELSE ValueError

abs(n) == IF n < 0 THEN -n ELSE n

\* the number of decimal digits of n > 0
RECURSIVE digit_count(_)
digit_count(n) == IF n < 10 THEN 1 ELSE 1 + digit_count(n \div 10)

\* a < b on two positive decimals: the place of the first digit decides,
\* then the digits
decimal_lt(a, b) ==
    LET ma == digit_count(a.mant) + a.exp
        mb == digit_count(b.mant) + b.exp
        low == IF a.exp < b.exp THEN a.exp ELSE b.exp
    IN  IF ma # mb THEN ma < mb
        ELSE a.mant * pow10(a.exp - low) < b.mant * pow10(b.exp - low)

negated(a) == [a EXCEPT !.mant = -a.mant]

\* a < b on two finite floats
finite_lt(a, b) ==
    CASE a.mant <= 0 /\ b.mant <= 0 ->
            a.mant # 0 /\ (b.mant = 0 \/ decimal_lt(negated(b), negated(a)))
      [] a.mant <= 0 /\ b.mant > 0 -> TRUE
      [] a.mant > 0 /\ b.mant <= 0 -> FALSE
      [] OTHER -> decimal_lt(a, b)

\* a < b on two floats (IEEE: every comparison with NaN is false)
float_lt(a, b) ==
    CASE a.kind = "nan" \/ b.kind = "nan" -> FALSE
      [] a.kind = "inf" /\ b.kind = "inf" -> a.neg /\ ~b.neg
      [] a.kind = "inf" -> a.neg
      [] b.kind = "inf" -> ~b.neg
      [] OTHER -> finite_lt(a, b)

\* a == b on two floats
float_eq(a, b) ==
    CASE a.kind = "nan" \/ b.kind = "nan" -> FALSE
      [] a.kind = "inf" /\ b.kind = "inf" -> a.neg = b.neg
      [] a.kind = "inf" \/ b.kind = "inf" -> FALSE
      [] OTHER -> ~finite_lt(a, b) /\ ~finite_lt(b, a)

\* a > b on two floats
float_gt(a, b) == float_lt(b, a)

\* a mutant of is_numeric: a leading number is enough ("12abc" passes)
is_numeric_prefix(v) ==
    v # None /\ scan_number(unsigned(strip(v))).ok

\* is_numeric(value): None is not numeric; otherwise float(value) is tried and
\* the value is numeric iff no ValueError is raised.
is_numeric(v) ==
    IF v = None THEN FALSE ELSE float_accepts(v)

----------------------------------------------------------------------------
(* Rows and datasets: CSVData = List[Dict[str, str]] *)

\* A row is a dict in insertion order: a sequence of <<key, value>>.  A
\* value is a str, or None where csv.DictReader found the line too short.
has_key(row, key) == \E i \in 1..Len(row) : row[i][1] = key

\* row[key] for a key the row has
item(row, key) == row[CHOOSE i \in 1..Len(row) : row[i][1] = key][2]

\* row.get(key, default)
get(row, key, default) == IF has_key(row, key) THEN item(row, key) ELSE default

\* list(row.keys())
keys(row) == [i \in 1..Len(row) |-> row[i][1]]

Reverse(s) == [i \in 1..Len(s) |-> s[Len(s) + 1 - i]]

----------------------------------------------------------------------------
(* WhereProcessor *)

\* WhereProcessor.OPERATORS
OPERATORS == {"=", ">", "<"}

\* operator.eq / operator.gt / operator.lt on two floats
op_float(op, a, b) ==
    CASE op = "=" -> float_eq(a, b)
      [] op = ">" -> float_gt(a, b)
      [] op = "<" -> float_lt(a, b)

\* operator.eq / operator.gt / operator.lt on two str
op_str(op, a, b) ==
    CASE op = "=" -> a = b
      [] op = ">" -> str_lt(b, a)
      [] op = "<" -> str_lt(a, b)

\* WhereProcessor.__init__ (op_str is one of OPERATORS at every call site)
WhereProcessor(key, op, val) ==
    [kind |-> "where", key |-> key, op |-> op, value_str |-> val,
     is_numeric_comparison |-> is_numeric(val)]

\* a mutant of where_keeps: the numeric mode compares the raw strings
where_keeps_raw(p, row) ==
    /\ get(row, p.key, None) # None
    /\ op_str(p.op, get(row, p.key, None), p.value_str)

\* the try block of the loop: the two float() calls returned, and the
\* operator holds on their values
where_keeps_floats(p, row_value_float, condition_value_float) ==
    /\ row_value_float # ValueError
    /\ op_float(p.op, row_value_float, condition_value_float)

where_keeps_value(p, row_value_str) ==
    /\ row_value_str # None
    /\ IF p.is_numeric_comparison
       THEN where_keeps_floats(p, float(row_value_str), float(p.value_str))
       ELSE op_str(p.op, row_value_str, p.value_str)

\* The body of the loop of WhereProcessor.process: TRUE iff the row is
\* appended to filtered_data.
where_keeps(p, row) == where_keeps_value(p, get(row, p.key, None))

\* The loop of WhereProcessor.process over the rows, in order.
RECURSIVE where_loop(_, _)
where_loop(p, rows) ==
    IF rows = <<>> THEN <<>>
    ELSE (IF where_keeps(p, Head(rows)) THEN <<Head(rows)>> ELSE <<>>)
         \o where_loop(p, Tail(rows))

\* a mutant of where_process: the first row is taken for the header line
where_process_skip(p, d) ==
    IF d = <<>> THEN [data |-> <<>>, warnings |-> <<>>]
    ELSE IF ~has_key(d[1], p.key)
    THEN [data |-> <<>>, warnings |-> <<"key not found">>]
    ELSE [data |-> where_loop(p, Tail(d)), warnings |-> <<>>]

\* WhereProcessor.process: the rows returned and the warnings printed.
where_process(p, d) ==
    IF d = <<>> THEN [data |-> <<>>, warnings |-> <<>>]
    ELSE IF ~has_key(d[1], p.key)
    THEN [data |-> <<>>, warnings |-> <<"key not found">>]
    ELSE [data |-> where_loop(p, d), warnings |-> <<>>]

----------------------------------------------------------------------------
(* OrderByProcessor *)

\* OrderByProcessor.__init__
OrderByProcessor(key, reverse) ==
    [kind |-> "order", key |-> key, reverse |-> reverse]

\* is_col_numeric = any(is_numeric(row.get(self.key, '')) for row in data)
is_col_numeric(p, d) ==
    \E i \in 1..Len(d) : is_numeric(get(d[i], p.key, <<>>))

\* sort_key(row): a float when the column is numeric, else a str
float_or(parsed, default) == IF parsed # ValueError THEN parsed ELSE default

sort_key_of(p, numericCol, val) ==
    IF numericCol
    THEN float_or(float(val), IF p.reverse THEN Inf(TRUE) ELSE Inf(FALSE))
    ELSE IF truthy(val) THEN val ELSE <<>>

sort_key(p, numericCol, row) == sort_key_of(p, numericCol, get(row, p.key, None))

\* a < b on two sort keys (both floats, or both str)
key_lt(numericCol, a, b) ==
    IF numericCol THEN float_lt(a, b) ELSE str_lt(a, b)

\* list.sort of fewer than 64 items, as CPython runs it on the keys: the
\* items are <<key, row>>.  count_run finds the run the list starts with
\* (non-descending, or strictly descending and then reversed in place);
\* binarysort inserts every later item by binary search.  Only `<` is asked.
RECURSIVE run_end(_, _, _, _)
run_end(nc, s, i, descending) ==
    IF i < Len(s) /\ (key_lt(nc, s[i + 1][1], s[i][1]) <=> descending)
    THEN run_end(nc, s, i + 1, descending)
    ELSE i

\* count_run and the reversal of a descending run: the list, and the length
\* of its sorted prefix
reversed_run(s, n, descending) ==
    [n |-> n,
     s |-> IF descending
           THEN Reverse(SubSeq(s, 1, n)) \o SubSeq(s, n + 1, Len(s))
           ELSE s]

count_run_from(nc, s, descending) ==
    reversed_run(s, run_end(nc, s, 2, descending), descending)

count_run(nc, s) == count_run_from(nc, s, key_lt(nc, s[2][1], s[1][1]))

\* the binary search of binarysort for pivot in s[l+1 .. r] (l, r as in C)
RECURSIVE bisect(_, _, _, _, _)
bisect(nc, s, pivot, l, r) ==
    IF l >= r THEN l
    ELSE LET p == l + ((r - l) \div 2)
         IN  IF key_lt(nc, pivot[1], s[p + 1][1])
             THEN bisect(nc, s, pivot, l, p)
             ELSE bisect(nc, s, pivot, p + 1, r)

\* binarysort: s[1..start] is sorted, the items after it are inserted
\* s with its item start + 1 moved to the place after the first l items
insert_at(s, l, start) ==
    SubSeq(s, 1, l) \o <<s[start + 1]>> \o SubSeq(s, l + 1, start)
        \o SubSeq(s, start + 2, Len(s))

RECURSIVE binarysort(_, _, _)
binarysort(nc, s, start) ==
    IF start >= Len(s) THEN s
    ELSE binarysort(nc, insert_at(s, bisect(nc, s, s[start + 1], 0, start), start),
                    start + 1)

\* sorted(items, key, reverse) for items <<key, row>>
sort_run(nc, run) == binarysort(nc, run.s, run.n)

sort_forward(nc, s) == IF Len(s) < 2 THEN s ELSE sort_run(nc, count_run(nc, s))

reversed_if(s, reverse) == IF reverse THEN Reverse(s) ELSE s

list_sort(nc, items, reverse) ==
    reversed_if(sort_forward(nc, reversed_if(items, reverse)), reverse)

\* sorted(data, key=sort_key, reverse=self.reverse)
keyed_rows(p, nc, d) == [i \in 1..Len(d) |-> <<sort_key(p, nc, d[i]), d[i]>>]

rows_of(s) == [i \in 1..Len(s) |-> s[i][2]]

sorted_by(p, nc, d) == rows_of(list_sort(nc, keyed_rows(p, nc, d), p.reverse))

sorted_rows(p, d) == sorted_by(p, is_col_numeric(p, d), d)

\* a mutant of order_process: an unknown column empties the result
order_process_empty(p, d) ==
    IF d = <<>> THEN [data |-> d, warnings |-> <<>>]
    ELSE IF ~has_key(d[1], p.key)
    THEN [data |-> <<>>, warnings |-> <<"key not found">>]
    ELSE [data |-> sorted_rows(p, d), warnings |-> <<>>]

\* OrderByProcessor.process
order_process(p, d) ==
    IF d = <<>> THEN [data |-> d, warnings |-> <<>>]
    ELSE IF ~has_key(d[1], p.key)
    THEN [data |-> d, warnings |-> <<"key not found">>]
    ELSE [data |-> sorted_rows(p, d), warnings |-> <<>>]

----------------------------------------------------------------------------
(* AggregateProcessor *)

min_name == <<"m", "i", "n">>
max_name == <<"m", "a", "x">>
avg_name == <<"a", "v", "g">>

\* AggregateProcessor.AGG_FUNCS (its keys)
AGG_FUNCS == {min_name, max_name, avg_name}

\* AggregateProcessor.__init__ (agg_func_str is checked by the caller's try)
AggregateProcessor(key, agg_func_str) ==
    [kind |-> "aggregate", key |-> key, agg_func_str |-> agg_func_str]

\* numeric_values.append(float(...)), nothing when float() raised
appended_float(v) == IF v # ValueError THEN <<v>> ELSE <<>>

\* numeric_values: float(row[self.key]) of every row where that returns
RECURSIVE numeric_values(_, _)
numeric_values(p, rows) ==
    IF rows = <<>> THEN <<>>
    ELSE appended_float(float(get(Head(rows), p.key, None)))
         \o numeric_values(p, Tail(rows))

\* the builtin min(list): the first item, replaced by each later item that
\* is < the one held
RECURSIVE py_min(_, _)
py_min(best, rest) ==
    IF rest = <<>> THEN best
    ELSE py_min(IF float_lt(Head(rest), best) THEN Head(rest) ELSE best, Tail(rest))

\* the builtin max(list): replaced by each later item that is > the one held
RECURSIVE py_max(_, _)
py_max(best, rest) ==
    IF rest = <<>> THEN best
    ELSE py_max(IF float_gt(Head(rest), best) THEN Head(rest) ELSE best, Tail(rest))

\* float addition of two values that are not finite
nonfinite_add(a, b) ==
    IF a.kind = "nan" \/ b.kind = "nan" \/ a.neg # b.neg THEN NaN ELSE a

RECURSIVE nonfinite_sum(_, _)
nonfinite_sum(acc, xs) ==
    IF xs = <<>> THEN acc ELSE nonfinite_sum(nonfinite_add(acc, Head(xs)), Tail(xs))

min_exp(xs) ==
    LET exps == {xs[i].exp : i \in 1..Len(xs)}
    IN  CHOOSE e \in exps : \A f \in exps : e <= f

RECURSIVE exact_sum(_, _)
exact_sum(xs, low) ==
    IF xs = <<>> THEN 0
    ELSE Head(xs).mant * pow10(Head(xs).exp - low) + exact_sum(Tail(xs), low)

\* statistics.mean: the exact sum of the finite values over their count, the
\* fraction num / den; as soon as one value is not finite, the float sum of
\* those values
mean_of(xs, nonfinite, low) ==
    IF nonfinite # <<>> THEN nonfinite_sum(Head(nonfinite), Tail(nonfinite))
    ELSE [kind |-> "fin", num |-> exact_sum(xs, low) * pow10(low),
          den |-> Len(xs) * pow10(-low)]

mean(xs) == mean_of(xs, SelectSeq(xs, LAMBDA x : x.kind # "fin"), min_exp(xs))

digit_char(d) == CodePoints[ord("0") + d]

\* str(n) of an int n >= 0
RECURSIVE digits_of(_)
digits_of(n) ==
    IF n < 10 THEN <<digit_char(n)>>
    ELSE digits_of(n \div 10) \o <<digit_char(n % 10)>>

RECURSIVE zero_pad(_, _)
zero_pad(ds, width) == IF Len(ds) >= width THEN ds ELSE zero_pad(<<"0">> \o ds, width)

RECURSIVE strip_zeros(_)
strip_zeros(ds) ==
    IF Len(ds) > 1 /\ ds[Len(ds)] = "0" THEN strip_zeros(SubSeq(ds, 1, Len(ds) - 1))
    ELSE ds

nonfinite_str(x) ==
    IF x.kind = "nan" THEN <<"n", "a", "n">>
    ELSE (IF x.neg THEN <<"-">> ELSE <<>>) \o <<"i", "n", "f">>

\* str(x) of a float that repr writes in positional notation (0, or
\* 1e-4 <= |x| < 1e16): the digits, a point, and the fraction without
\* trailing zeros ("1199.0", "1.5")
positional(negative, num, den, places) ==
    (IF negative THEN <<"-">> ELSE <<>>)
    \o digits_of(num \div den) \o <<".">>
    \o strip_zeros(zero_pad(digits_of(num % den), places))

float_str(x) ==
    IF x.kind # "fin" THEN nonfinite_str(x)
    ELSE positional(x.mant < 0 \/ x.nz, abs(x.mant) * pow10(x.exp),
                    pow10(-x.exp), -x.exp)

\* the fraction x rounded to hundredths, |x| * 100 as an int.  A tie is
\* broken towards the even neighbour, which is what the double does when the
\* mean is a multiple of 1/8; the means of the model's datasets (sums of 1
\* and 2 over fewer than 8 rows) meet no other tie.
round_half_even(q, r, den) ==
    IF 2 * r > den \/ (2 * r = den /\ q % 2 = 1) THEN q + 1 ELSE q

round_hundredths(x) ==
    round_half_even((abs(x.num) * 100) \div x.den, (abs(x.num) * 100) % x.den, x.den)

\* f'{x:.2f}' of the fraction statistics.mean returns
hundredths_str(negative, h) ==
    (IF negative THEN <<"-">> ELSE <<>>)
    \o digits_of(h \div 100) \o <<".">> \o zero_pad(digits_of(h % 100), 2)

format_2f(x) ==
    IF x.kind # "fin" THEN nonfinite_str(x)
    ELSE hundredths_str(x.num < 0, round_hundredths(x))

\* self.agg_func(numeric_values)
agg_func(name, xs) ==
    IF name = min_name THEN py_min(Head(xs), Tail(xs))
    ELSE IF name = max_name THEN py_max(Head(xs), Tail(xs))
    ELSE mean(xs)

\* AggregateProcessor.process
formatted_result(p, result) ==
    IF p.agg_func_str = avg_name THEN format_2f(result) ELSE float_str(result)

\* the end of AggregateProcessor.process, from `if not numeric_values`
aggregate_values(p, xs) ==
    IF xs = <<>>
    THEN [data |-> <<>>, warnings |-> <<"no numeric data">>]
    ELSE [data |-> << <<<<p.agg_func_str,
                          formatted_result(p, agg_func(p.agg_func_str, xs))>>>> >>,
          warnings |-> <<>>]

aggregate_process(p, d) ==
    IF d # <<>> /\ ~has_key(d[1], p.key)
    THEN [data |-> <<>>, warnings |-> <<"key for aggregation not found">>]
    ELSE aggregate_values(p, numeric_values(p, d))

\* DataProcessor.process, dispatched on the processor's class
process(p, d) ==
    CASE p.kind = "where" -> where_process(p, d)
      [] p.kind = "order" -> order_process(p, d)
      [] p.kind = "aggregate" -> aggregate_process(p, d)

----------------------------------------------------------------------------
(* ConsoleViewer *)

\* the inner loop of _determine_column_types for one header: the first
\* non-empty value of the column decides, no such value means not numeric
RECURSIVE column_is_numeric(_, _)
column_is_numeric(rows, header) ==
    IF rows = <<>> THEN FALSE
    ELSE LET v == get(Head(rows), header, <<>>)
         IN  IF truthy(v) THEN is_numeric(v)
             ELSE column_is_numeric(Tail(rows), header)

\* str(val) if val is not None else '' for every value of the row
row_cells(row) == [i \in 1..Len(row) |-> IF row[i][2] # None THEN row[i][2] ELSE <<>>]

\* ConsoleViewer.show: what is printed.  Table(...) is built without a
\* title argument and source_name is not read, so the table has no title.
show(d, source_name) ==
    IF d = <<>> THEN [kind |-> "nothing"]
    ELSE LET headers == keys(d[1])
         IN  [kind |-> "table",
              title |-> None,
              headers |-> headers,
              right_aligned |-> [i \in 1..Len(headers) |-> column_is_numeric(d, headers[i])],
              rows |-> [i \in 1..Len(d) |-> row_cells(d[i])]]

----------------------------------------------------------------------------
(* The CLI features: the text of a flag becomes a processor or a ValueError *)

\* the class [=<>] of the pattern of WhereFeature.create_processor
OpChars == {"=", "<", ">"}

\* the index of the first character of s that is in chars, 0 if none
first_index(s, chars) ==
    IF \E i \in 1..Len(s) : s[i] \in chars
    THEN CHOOSE i \in 1..Len(s) :
             s[i] \in chars /\ \A j \in 1..(i - 1) : s[j] \notin chars
    ELSE 0

\* str.split(sep) for a one-character sep
RECURSIVE split(_, _)
split(s, sep) ==
    LET i == first_index(s, {sep})
    IN  IF i = 0 THEN <<s>>
        ELSE <<SubSeq(s, 1, i - 1)>> \o split(drop(s, i), sep)

\* WhereFeature.create_processor: re.match(r'^([^=<>]+)([=<>])(.*)$') matches
\* iff an operator character occurs and is not the first character; group 1
\* is the text before the first operator character, group 3 the text after.
where_create(text) ==
    LET i == first_index(text, OpChars)
    IN  IF i < 2 THEN ValueError
        ELSE WhereProcessor(strip(SubSeq(text, 1, i - 1)), text[i],
                            strip(drop(text, i)))

asc_name == <<"a", "s", "c">>
desc_name == <<"d", "e", "s", "c">>

\* OrderByFeature.create_processor
order_create(text) ==
    LET parts == split(text, "=")
        key == strip(parts[1])
        direction == IF Len(parts) > 1 THEN lower(strip(parts[2])) ELSE asc_name
    IN  IF direction \notin {asc_name, desc_name} THEN ValueError
        ELSE OrderByProcessor(key, direction = desc_name)

\* AggregateFeature.create_processor with the check of
\* AggregateProcessor.__init__
aggregate_create(text) ==
    LET parts == split(text, "=")
    IN  IF Len(parts) # 2 THEN ValueError
        ELSE IF lower(strip(parts[2])) \notin AGG_FUNCS THEN ValueError
        ELSE AggregateProcessor(strip(parts[1]), lower(strip(parts[2])))

\* the features list of main(), by arg_name, in the order it is written
features == <<"--where", "--order-by", "--aggregate">>

\* feature.create_processor(value)
create_processor(feature, text) ==
    CASE feature = "--where" -> where_create(text)
      [] feature = "--order-by" -> order_create(text)
      [] feature = "--aggregate" -> aggregate_create(text)

\* args_dict.get(feature.dest_name): the text of the last occurrence of the
\* flag on the command line, None when the flag is not given
arg_value(args, feature) ==
    LET at == {i \in 1..Len(args) : args[i][1] = feature}
    IN  IF at = {} THEN None
        ELSE args[CHOOSE i \in at : \A j \in at : j <= i][2]

\* the loop of the mutant build_processors_typed, over the flags as typed
RECURSIVE typed_loop(_)
typed_loop(args) ==
    IF args = <<>> THEN <<>>
    ELSE (IF truthy(Head(args)[2])
          THEN <<create_processor(Head(args)[1], Head(args)[2])>> ELSE <<>>)
         \o typed_loop(Tail(args))

\* a mutant of build_processors: the processors are created in the order the
\* flags were typed
build_processors_typed(args, todo) == typed_loop(args)

\* the loop of main() over the features: the processors created, in order
\* (a ValueError stands where create_processor raised)
RECURSIVE build_processors(_, _)
build_processors(args, todo) ==
    IF todo = <<>> THEN <<>>
    ELSE (IF truthy(arg_value(args, Head(todo)))
          THEN <<create_processor(Head(todo), arg_value(args, Head(todo)))>>
          ELSE <<>>)
         \o build_processors(args, Tail(todo))

----------------------------------------------------------------------------
(* The bounds of the model and the inputs drawn within them *)

\* the longest text given to is_numeric, beside the samples
MaxLen == 3

\* the most rows of a dataset given to one processor
MaxRows == 3

\* the most rows of the file read by main()
MainRows == 2

\* the most rows of a dataset given to the sorter alone
SortRows == 7

BoundedSeq(S, n) == UNION {[1..k -> S] : k \in 0..n}

name_col == <<"n">>
price_col == <<"p">>
other_col == <<"z">>

\* a row of the file: the columns n and p, in the header's order
Row(n, p) == << <<name_col, n>>, <<price_col, p>> >>

\* the values of column p: absent, empty, text, numbers (two spellings of
\* one), infinity and NaN
FieldValues == {None, <<>>, <<"x">>, <<"1">>, <<"1", ".", "0">>, <<"2">>,
                <<"i", "n", "f">>, <<"n", "a", "n">>}

Datasets == BoundedSeq({Row(<<"a">>, v) : v \in FieldValues}, MaxRows)

MainValues == {None, <<"x">>, <<"1">>, <<"2">>}

MainDatasets == BoundedSeq({Row(<<"a">>, v) : v \in MainValues}, MainRows)

SortValues == {<<"1">>, <<"1", ".", "0">>, <<"2">>, <<"n", "a", "n">>}

SortDatasets == BoundedSeq({Row(<<"a">>, v) : v \in SortValues}, SortRows)

ClassifierChars == {"1", "-", ".", "e", "n", "a", " ", "_"}

\* the values of the repository's test of is_numeric, the spec's "12abc",
\* and spellings float() knows
ClassifierSamples ==
    {None, <<"1", "2", "3">>, <<"1", "2", "3", ".", "4", "5">>, <<"-", "1", "0">>,
     <<"a", "b", "c">>, <<"1", "2", "a", "b", "c">>, <<"i", "n", "f">>,
     <<"-", "I", "n", "f", "i", "n", "i", "t", "y">>, <<"N", "a", "N">>,
     <<"+", "1", "E", "+", "1", "0">>, <<"1", "_", "0", "0", "0">>,
     <<"i", "n", "f", "i">>, <<"+", "-", "1">>}

ClassifierInputs == BoundedSeq(ClassifierChars, MaxLen) \cup ClassifierSamples

\* the texts typed after --where, --order-by and --aggregate
WhereTexts == {<<"p", ">", "1">>, <<"p", " ", "=", " ", "x">>, <<"z", "<", "1">>,
               <<">", "1">>, <<>>}
OrderTexts == {<<"p">>, <<"p", "=", "D", "E", "S", "C">>, <<"z">>,
               <<"p", "=", "u", "p">>}
AggregateTexts == {<<"p", "=", "m", "a", "x">>, <<"p", "=", "a", "v", "g">>,
                   <<"z", "=", "m", "i", "n">>, <<"p">>,
                   <<"p", "=", "s", "u", "m">>}

FlagTexts(feature) ==
    CASE feature = "--where" -> WhereTexts
      [] feature = "--order-by" -> OrderTexts
      [] feature = "--aggregate" -> AggregateTexts

\* the command lines: some of the three flags, each once, in any order
CommandLines ==
    {a \in BoundedSeq({<<f, t>> : f \in {"--where", "--order-by", "--aggregate"},
                                  t \in WhereTexts \cup OrderTexts \cup AggregateTexts},
                      Len(features)) :
        /\ \A i \in 1..Len(a) : a[i][2] \in FlagTexts(a[i][1])
        /\ \A i, j \in 1..Len(a) : i # j => a[i][1] # a[j][1]}

source_file == <<"d", ".", "c", "s", "v">>

\* the file named by --file: missing, unreadable, or read into rows (an
\* empty file and a file of a header alone are read into no rows)
Files == {[kind |-> "missing", rows |-> <<>>], [kind |-> "unreadable", rows |-> <<>>]}
         \cup {[kind |-> "ok", rows |-> d] : d \in MainDatasets}

----------------------------------------------------------------------------
(* main() and CSVApplication.run *)

Init ==
    /\ pc = "main"
    /\ argv \in CommandLines
    /\ file \in Files
    /\ processors = <<>>
    /\ data = <<>>
    /\ trail = <<>>
    /\ shown = <<>>
    /\ warnings = <<>>
    /\ exit_code = 0
    /\ value = None
    /\ numeric = FALSE

HasError(ps) == \E i \in 1..Len(ps) : ps[i] = ValueError

\* no create_processor raised: the list built is the processor list
Created(ps) == ~HasError(ps) /\ processors' = ps

\* main(): the try block creates every processor
CreateProcessors ==
    /\ pc = "main"
    /\ Created(build_processors(argv, features))
    /\ pc' = "run"
    /\ UNCHANGED <<value, numeric, argv, file, data, trail, shown, warnings, exit_code>>

\* main(): a create_processor raises ValueError; the message is printed and
\* sys.exit(1) ends the process
ConfigError ==
    /\ pc = "main"
    /\ HasError(build_processors(argv, features))
    /\ pc' = "exit"
    /\ exit_code' = 1
    /\ UNCHANGED <<value, numeric, argv, file, processors, data, trail, shown, warnings>>

\* CSVApplication.run: self.data = self.loader.load(source_file)
Load ==
    /\ pc = "run"
    /\ file.kind = "ok"
    /\ data' = file.rows
    /\ trail' = <<file.rows>>
    /\ pc' = "process"
    /\ UNCHANGED <<value, numeric, argv, file, processors, shown, warnings, exit_code>>

\* a mutant of LoadError: the loader answers a failed read with no rows
LoadErrorSwallowed ==
    /\ pc = "run"
    /\ file.kind # "ok"
    /\ data' = <<>>
    /\ trail' = << <<>> >>
    /\ pc' = "process"
    /\ UNCHANGED <<value, numeric, argv, file, processors, shown, warnings, exit_code>>

\* CSVDataLoader.load: FileNotFoundError or another exception; the message
\* is printed and sys.exit(1) ends the process
LoadError ==
    /\ pc = "run"
    /\ file.kind # "ok"
    /\ pc' = "exit"
    /\ exit_code' = 1
    /\ UNCHANGED <<value, numeric, argv, file, processors, data, trail, shown, warnings>>

\* processed_data = processor.process(processed_data): the dataset returned
\* is the next one, the warnings printed are kept
Returned(r) ==
    /\ trail' = Append(trail, r.data)
    /\ warnings' = warnings \o r.warnings

\* CSVApplication.run: one turn of the loop over self.processors
Process ==
    /\ pc = "process"
    /\ Len(trail) <= Len(processors)
    /\ Returned(process(processors[Len(trail)], trail[Len(trail)]))
    /\ UNCHANGED <<pc, value, numeric, argv, file, processors, data, shown, exit_code>>

\* CSVApplication.run: self.viewer.show(processed_data, source_name), then
\* main() returns
Show ==
    /\ pc = "process"
    /\ Len(trail) = Len(processors) + 1
    /\ shown' = Append(shown, show(trail[Len(trail)], source_file))
    /\ pc' = "done"
    /\ UNCHANGED <<value, numeric, argv, file, processors, data, trail, warnings, exit_code>>

Next == CreateProcessors \/ ConfigError \/ Load \/ LoadError \/ Process \/ Show

Spec == Init /\ [][Next]_vars

----------------------------------------------------------------------------
(* One processor called on a dataset, as the repository's tests call it *)

InitProcessors ==
    /\ pc = "unit"
    /\ data \in Datasets
    /\ trail = <<data>>
    /\ processors = <<>>
    /\ shown = <<>>
    /\ warnings = <<>>
    /\ exit_code = 0
    /\ argv = <<>>
    /\ file = [kind |-> "ok", rows |-> data]
    /\ value = None
    /\ numeric = FALSE

\* processor.process(data), recorded
Apply(p) ==
    /\ pc = "unit"
    /\ shown = <<>>
    /\ Returned(process(p, trail[Len(trail)]))
    /\ processors' = Append(processors, p)
    /\ UNCHANGED <<pc, value, numeric, argv, file, data, shown, exit_code>>

WhereLiterals == {<<"1">>, <<"x">>, <<>>}

ApplyWhere ==
    /\ processors = <<>>
    /\ \E key \in {price_col, other_col}, op \in OPERATORS, lit \in WhereLiterals :
          Apply(WhereProcessor(key, op, lit))

\* the same WhereProcessor called again on its own output
ReapplyWhere ==
    /\ Len(processors) = 1
    /\ processors[1].kind = "where"
    /\ Apply(processors[1])

ApplyOrderBy ==
    /\ processors = <<>>
    /\ \E key \in {price_col, name_col, other_col}, reverse \in BOOLEAN :
          Apply(OrderByProcessor(key, reverse))

ApplyAggregate ==
    /\ processors = <<>>
    /\ \E key \in {price_col, name_col, other_col}, f \in AGG_FUNCS :
          Apply(AggregateProcessor(key, f))

\* viewer.show of the dataset held
UnitShow ==
    /\ pc = "unit"
    /\ shown = <<>>
    /\ shown' = <<show(trail[Len(trail)], source_file)>>
    /\ UNCHANGED <<pc, value, numeric, argv, file, processors, data, trail, warnings, exit_code>>

NextProcessors == ApplyWhere \/ ReapplyWhere \/ ApplyOrderBy \/ ApplyAggregate \/ UnitShow

SpecProcessors == InitProcessors /\ [][NextProcessors]_vars

----------------------------------------------------------------------------
(* The sorter alone, on longer datasets *)

InitSort ==
    /\ pc = "unit"
    /\ data \in SortDatasets
    /\ trail = <<data>>
    /\ processors = <<>>
    /\ shown = <<>>
    /\ warnings = <<>>
    /\ exit_code = 0
    /\ argv = <<>>
    /\ file = [kind |-> "ok", rows |-> data]
    /\ value = None
    /\ numeric = FALSE

SortAscending == processors = <<>> /\ Apply(OrderByProcessor(price_col, FALSE))

SortDescending == processors = <<>> /\ Apply(OrderByProcessor(price_col, TRUE))

NextSort == SortAscending \/ SortDescending

SpecSort == InitSort /\ [][NextSort]_vars

----------------------------------------------------------------------------
(* The classifier alone *)

InitClassifier ==
    /\ pc = "classify"
    /\ value \in ClassifierInputs
    /\ numeric = FALSE
    /\ argv = <<>>
    /\ file = [kind |-> "ok", rows |-> <<>>]
    /\ processors = <<>>
    /\ data = <<>>
    /\ trail = <<>>
    /\ shown = <<>>
    /\ warnings = <<>>
    /\ exit_code = 0

\* is_numeric(value)
Classify ==
    /\ pc = "classify"
    /\ numeric' = is_numeric(value)
    /\ pc' = "classified"
    /\ UNCHANGED <<value, argv, file, processors, data, trail, shown, warnings, exit_code>>

NextClassifier == Classify

SpecClassifier == InitClassifier /\ [][NextClassifier]_vars

----------------------------------------------------------------------------
(* C10: what is_numeric accepts *)

AllIn(s, S) == \A i \in 1..Len(s) : s[i] \in S

Count(s, ch) == Cardinality({i \in 1..Len(s) : s[i] = ch})

\* every underscore of s stands between two digits of s
UnderscoresBetweenDigits(s) ==
    \A i \in 1..Len(s) :
        s[i] = "_" => /\ 1 < i /\ i < Len(s)
                      /\ s[i - 1] \in Digits /\ s[i + 1] \in Digits

\* digits, with at most one point among them
IsMantissa(m) ==
    /\ AllIn(m, Digits \cup {".", "_"})
    /\ Count(m, ".") <= 1
    /\ \E i \in 1..Len(m) : m[i] \in Digits
    /\ UnderscoresBetweenDigits(m)

\* nothing, or e / E, an optional sign and digits
IsExponent(e) ==
    \/ e = <<>>
    \/ /\ Head(e) \in {"e", "E"}
       /\ unsigned(Tail(e)) # <<>>
       /\ AllIn(unsigned(Tail(e)), Digits \cup {"_"})
       /\ UnderscoresBetweenDigits(unsigned(Tail(e)))

\* a possibly signed, possibly fractional decimal number: the claim's words
IsSignedDecimal(s) ==
    /\ AllIn(unsigned(s), Digits \cup {"."})
    /\ Count(unsigned(s), ".") <= 1
    /\ \E i \in 1..Len(unsigned(s)) : unsigned(s)[i] \in Digits

\* the texts float() accepts, as a grammar: blanks around a possibly signed
\* inf / infinity / nan in any case, or a possibly signed decimal number
\* with an optional fraction and exponent, a single underscore allowed
\* between two digits
IsFloatLiteral(s) ==
    \E i \in 0..Len(s), j \in 0..Len(s) :
        /\ i < j
        /\ AllIn(SubSeq(s, 1, i), {" "})
        /\ AllIn(SubSeq(s, j + 1, Len(s)), {" "})
        /\ LET u == unsigned(SubSeq(s, i + 1, j))
           IN  \/ lower(u) \in InfNanWords
               \/ \E k \in 1..Len(u) :
                     IsMantissa(SubSeq(u, 1, k)) /\ IsExponent(SubSeq(u, k + 1, Len(u)))

----------------------------------------------------------------------------
(* C3, C9: the filter *)

\* the claim's predicate: the field is present and, for a numeric literal,
\* parses and satisfies the operator on the parsed values; for another
\* literal, satisfies the operator on the raw strings
C3_Satisfies(p, row) ==
    LET field == get(row, p.key, None)
    IN  /\ field # None
        /\ IF is_numeric(p.value_str)
           THEN /\ is_numeric(field)
                /\ op_float(p.op, float_value(field), float_value(p.value_str))
           ELSE op_str(p.op, field, p.value_str)

\* C3: WhereProcessor.process returns exactly the rows of its input that
\* satisfy the predicate, in their original order, and leaves the input as
\* it was.
C3_FilterKeepsMatches ==
    (pc = "unit" /\ processors # <<>> /\ processors[1].kind = "where") =>
        /\ trail[2] = SelectSeq(trail[1], LAMBDA row : C3_Satisfies(processors[1], row))
        /\ trail[1] = data

\* a numeric filter kept a row and dropped a row that does not parse and a
\* row whose field is absent
C3_Witness ==
    /\ pc = "unit"
    /\ Len(processors) = 1
    /\ processors[1].kind = "where"
    /\ processors[1].is_numeric_comparison
    /\ trail[2] # <<>>
    /\ \E i \in 1..Len(data) : data[i] = Row(<<"a">>, <<"x">>)
    /\ \E i \in 1..Len(data) : data[i] = Row(<<"a">>, None)

\* C9: filtering twice with the same predicate gives what filtering once
\* gives.
C9_FilterIdempotent ==
    (pc = "unit" /\ Len(processors) = 2) => trail[3] = trail[2]

\* a filter that dropped some rows and kept others was applied again
C9_Witness ==
    /\ pc = "unit"
    /\ Len(processors) = 2
    /\ processors[1] = processors[2]
    /\ trail[2] # <<>>
    /\ trail[3] # trail[1]

----------------------------------------------------------------------------
(* C5: the aggregator *)

C5_Le(a, b) == float_lt(a, b) \/ float_eq(a, b)

\* the same float: equal, or NaN both
C5_Same(a, b) == float_eq(a, b) \/ (a.kind = "nan" /\ b.kind = "nan")

\* v is the minimum of xs: no value is smaller, and every value that
\* nothing is smaller than is v
C5_IsMinimum(v, xs) ==
    /\ \A i \in 1..Len(xs) : ~float_lt(xs[i], v)
    /\ \A i \in 1..Len(xs) :
          (\A j \in 1..Len(xs) : ~float_lt(xs[j], xs[i])) => C5_Same(v, xs[i])

C5_IsMaximum(v, xs) ==
    /\ \A i \in 1..Len(xs) : ~float_lt(v, xs[i])
    /\ \A i \in 1..Len(xs) :
          (\A j \in 1..Len(xs) : ~float_lt(xs[i], xs[j])) => C5_Same(v, xs[i])

\* C5 as claimed: AggregateProcessor.process returns no rows iff no row's
\* value parses as a number; otherwise one row with the one key named after
\* the function, whose value is the minimum, the maximum or the mean of
\* exactly the values that parse.
C5_AggregateOfParsed ==
    (pc = "unit" /\ processors # <<>> /\ processors[1].kind = "aggregate") =>
        LET p == processors[1]
            parsed == SelectSeq(trail[1], LAMBDA row : is_numeric(get(row, p.key, None)))
            xs == [i \in 1..Len(parsed) |-> float_value(get(parsed[i], p.key, None))]
            out == trail[2]
        IN  /\ out = <<>> <=> parsed = <<>>
            /\ parsed # <<>> =>
                  /\ Len(out) = 1 /\ Len(out[1]) = 1
                  /\ out[1][1][1] = p.agg_func_str
                  /\ p.agg_func_str \in AGG_FUNCS
                  /\ p.agg_func_str = min_name =>
                        \E i \in 1..Len(xs) : /\ C5_IsMinimum(xs[i], xs)
                                              /\ out[1][1][2] = float_str(xs[i])
                  /\ p.agg_func_str = max_name =>
                        \E i \in 1..Len(xs) : /\ C5_IsMaximum(xs[i], xs)
                                              /\ out[1][1][2] = float_str(xs[i])
                  /\ p.agg_func_str = avg_name => out[1][1][2] = format_2f(mean(xs))

----------------------------------------------------------------------------
(* C6, C7: the sorter *)

\* the two rows have equal sort keys
C6_SameKey(p, nc, r1, r2) ==
    IF nc THEN float_eq(sort_key(p, nc, r1), sort_key(p, nc, r2))
    ELSE sort_key(p, nc, r1) = sort_key(p, nc, r2)

C6_Occurrences(s, r) == Cardinality({i \in 1..Len(s) : s[i] = r})

\* C6 as claimed: the output of OrderByProcessor.process is a permutation of
\* its input, and rows with equal sort keys keep their relative order, in
\* both directions.
C6_StableSort ==
    (pc = "unit" /\ processors # <<>> /\ processors[1].kind = "order") =>
        LET p == processors[1]
            d == trail[1]
            out == trail[2]
            nc == is_col_numeric(p, d)
        IN  /\ Len(out) = Len(d)
            /\ \A i \in 1..Len(d) : C6_Occurrences(out, d[i]) = C6_Occurrences(d, d[i])
            /\ (d # <<>> /\ has_key(d[1], p.key)) =>
                  \A i \in 1..Len(d) :
                      SelectSeq(out, LAMBDA r : C6_SameKey(p, nc, d[i], r))
                          = SelectSeq(d, LAMBDA r : C6_SameKey(p, nc, d[i], r))

C7_Parses(p, row) == is_numeric(get(row, p.key, None))

\* C7 as claimed: when a row of the column is numeric, the rows whose value
\* parses come first, ordered by parsed value (non-decreasing ascending,
\* non-increasing descending), and every row whose value does not parse
\* comes after all of them.
C7_NumericOrder ==
    (/\ pc = "unit" /\ processors # <<>> /\ processors[1].kind = "order"
     /\ trail[1] # <<>> /\ has_key(trail[1][1], processors[1].key)
     /\ \E i \in 1..Len(trail[1]) : C7_Parses(processors[1], trail[1][i])) =>
        LET p == processors[1]
            out == trail[2]
            val(i) == float_value(get(out[i], p.key, None))
        IN  \A i \in 1..Len(out), j \in 1..Len(out) :
                i < j =>
                    /\ C7_Parses(p, out[j]) => C7_Parses(p, out[i])
                    /\ (C7_Parses(p, out[i]) /\ C7_Parses(p, out[j])) =>
                          IF p.reverse THEN C5_Le(val(j), val(i))
                          ELSE C5_Le(val(i), val(j))

----------------------------------------------------------------------------
(* C1, C2, C4, C8: main() and the pipeline *)

\* the text typed after a flag, None when the flag was not typed
C1_Typed(flag) ==
    IF \E i \in 1..Len(argv) : argv[i][1] = flag
    THEN argv[CHOOSE i \in 1..Len(argv) : argv[i][1] = flag][2]
    ELSE None

C1_Given(flag) == C1_Typed(flag) \notin {None, <<>>}

\* the filter, then the sort, then the aggregate, of the flags given
C1_Expected ==
    (IF C1_Given("--where") THEN <<where_create(C1_Typed("--where"))>> ELSE <<>>)
    \o (IF C1_Given("--order-by") THEN <<order_create(C1_Typed("--order-by"))>> ELSE <<>>)
    \o (IF C1_Given("--aggregate")
        THEN <<aggregate_create(C1_Typed("--aggregate"))>> ELSE <<>>)

C1_Rank(kind) ==
    CASE kind = "where" -> 1 [] kind = "order" -> 2 [] kind = "aggregate" -> 3

\* C1: whatever the order of the flags on the command line, the processor
\* list is filter, sort, aggregate; run applies the list in that order, each
\* output the next input; with no flag the loaded dataset is rendered as
\* loaded.
C1_PipelineOrder ==
    /\ pc \in {"run", "process", "done"} =>
          /\ processors = C1_Expected
          /\ \A i \in 1..Len(processors), j \in 1..Len(processors) :
                i < j => C1_Rank(processors[i].kind) < C1_Rank(processors[j].kind)
    /\ pc \in {"process", "done"} =>
          /\ trail[1] = file.rows
          /\ \A i \in 2..Len(trail) :
                trail[i] = process(C1_Expected[i - 1], trail[i - 1]).data
    /\ pc = "done" =>
          /\ Len(trail) = Len(C1_Expected) + 1
          /\ shown = <<show(trail[Len(trail)], source_file)>>
          /\ argv = <<>> => shown = <<show(file.rows, source_file)>>

\* the three flags typed aggregate, sort, filter; the run is over and the
\* filter kept a row
C1_Witness ==
    /\ pc = "done"
    /\ Len(argv) = 3
    /\ argv[1][1] = "--aggregate" /\ argv[2][1] = "--order-by" /\ argv[3][1] = "--where"
    /\ Len(processors) = 3
    /\ trail[2] # <<>>
    /\ trail[4] # <<>>

\* a flag's text is refused when its processor is created
C2_ConfigInvalid ==
    \E i \in 1..Len(argv) :
        truthy(argv[i][2]) /\ create_processor(argv[i][1], argv[i][2]) = ValueError

C2_Fatal == C2_ConfigInvalid \/ file.kind # "ok"

\* C2: the renderer is called once, with the final dataset, in a run without
\* fatal error, and never in a run with one: that run ends with exit code 1
\* before any rendering.
C2_RenderOnce ==
    /\ Len(shown) <= 1
    /\ C2_Fatal => (shown = <<>> /\ pc \in {"main", "run", "exit"})
    /\ pc = "exit" => (C2_Fatal /\ exit_code = 1 /\ shown = <<>>)
    /\ pc = "done" =>
          /\ ~C2_Fatal
          /\ exit_code = 0
          /\ shown = <<show(trail[Len(trail)], source_file)>>
          /\ Len(trail) = Len(processors) + 1
    /\ pc # "exit" => exit_code = 0
    /\ pc = "process" => Len(trail) \in 1..(Len(processors) + 1)

\* a run that rendered, and a dataset that went through a processor
C2_Witness ==
    /\ pc = "done"
    /\ Len(shown) = 1
    /\ Len(processors) >= 1
    /\ shown[1].kind = "table"

\* C4: a processor that names a column the non-empty dataset lacks prints a
\* warning and degrades: the filter and the aggregate return no rows, the
\* sort returns its input as it is; the run goes on to the renderer and
\* ends with exit code 0.
C4_AbsentColumn ==
    \A i \in 1..(Len(trail) - 1) :
        (trail[i] # <<>> /\ ~has_key(trail[i][1], processors[i].key)) =>
            /\ processors[i].kind \in {"where", "aggregate"} => trail[i + 1] = <<>>
            /\ processors[i].kind = "order" => trail[i + 1] = trail[i]
            /\ warnings # <<>>
            /\ exit_code = 0
            /\ pc \in {"process", "done"}
            /\ pc = "process" => Len(trail) <= Len(processors) + 1
            /\ pc = "done" => Len(shown) = 1

\* a sort by an unknown column, then an aggregate of an unknown column, on a
\* dataset with rows; the run is over
C4_Witness ==
    /\ pc = "done"
    /\ Len(processors) = 2
    /\ processors[1].kind = "order" /\ processors[1].key = other_col
    /\ processors[2].kind = "aggregate" /\ processors[2].key = other_col
    /\ trail[1] # <<>>

\* C8 as claimed: a table of a dataset that is not the one-row, one-column
\* aggregate result is rendered under a title derived from the source
\* label; the aggregate result is rendered without one.
C8_TitleUnlessAggregate ==
    \A i \in 1..Len(shown) :
        shown[i].kind = "table" =>
            IF Len(shown[i].rows) = 1 /\ Len(shown[i].headers) = 1
            THEN shown[i].title = None
            ELSE shown[i].title # None

====
